---- MODULE Spec2Model ----
(***************************************************************************)
(* fpgaperf.py: the run orchestrator (main, run, print_stats), the Lattice *)
(* iCEcube2 and Radiant toolchain adapters, and the capability prober      *)
(* (which, have_exec, check_env, env_ready).                               *)
(*                                                                         *)
(* One sequential Python process is modelled.  Three entry points are      *)
(* covered: the command line (main -> run), a caller driving one adapter   *)
(* of this file directly (constructor, project, run, versions), and a      *)
(* caller probing the host with env_ready().                               *)
(***************************************************************************)
EXTENDS Integers, Sequences, FiniteSets, TLC

VARIABLES
    entry,      \* "main" | "adapter" | "env": which entry point is running
    args,       \* the caller's arguments (argparse namespace / direct call)
    osenv,      \* os.environ of the orchestrator process
    host,       \* the host: executables, install directories
    pc,         \* position in the program
    ip,         \* position in the body of the adapter's run()
    t,          \* the adapter instance (Toolchain object)
    open,       \* stack of Timed stages currently open
    runtimes,   \* t.runtimes: stage names in the order they were recorded
    cmds,       \* log of external processes started by Toolchain.cmd
    err,        \* the exception that ended the program, or "none"
    errAt,      \* the position at which it was raised
    written,    \* number of write_metadata() calls
    found,      \* the constraint kinds whose file run() found on disk
    files,      \* what versions() found in the files it read
    ret         \* return values: versions() mapping, env_ready() results

vars == << entry, args, osenv, host, pc, ip, t, open, runtimes, cmds, err,
           errAt, written, found, files, ret >>

----------------------------------------------------------------------------
(* Bounds of the model *)

\* longest source list of a project description
MaxSrcs == 2

\* how many times the caller repeats env_ready()
MaxCalls == 2

----------------------------------------------------------------------------
(* Values *)

None == "None"
Absent == "<unset>"

\* the toolchains table, keys in insertion order
toolchains ==
    << "vivado", "vivado-yosys", "arachne", "vpr", "nextpnr",
       "icecube2-synpro", "icecube2-lse", "icecube2-yosys",
       "radiant-synpro", "radiant-lse" >>

ToolchainIds == { toolchains[i] : i \in 1..Len(toolchains) }

\* adapters whose classes are defined in fpgaperf.py
Icecube2Ids == { "icecube2-synpro", "icecube2-lse", "icecube2-yosys" }
RadiantIds == { "radiant-synpro", "radiant-lse" }
LocalIds == Icecube2Ids \cup RadiantIds

\* adapters imported from icestorm, vivado, symbiflow
ImportedIds == ToolchainIds \ LocalIds

\* the pairs Radiant.run accepts
RadiantTargets ==
    { <<"up3k", "uwg30">>, <<"up5k", "uwg30">>, <<"up5k", "sg48">> }

\* (device, package) pairs a caller may pass, with the family of each
Targets ==
    RadiantTargets \cup
    { <<"hx8k", "ct256">>, <<"up3k", "sg48">>, <<"a35t", "csg324">> }

FamilyOf(target) == IF target[1] = "a35t" THEN "xc7" ELSE "ice40"

Families == { "ice40", "xc7", "ecp5" }

Strategies == { None, "Timing" }

SrcNames == << "top.v", "sub.v", "alu.v", "mem.v" >>

ConstraintKinds == { "pcf", "sdc", "xdc" }

EnvKeys ==
    { "PATH", "SRCS", "TOP", "ICECUBEDIR", "ICEDEV", "RADIANTDIR", "RADDEV" }

ICECUBEDIR_FALLBACK == "/opt/lscc/iCEcube2.2017.08"
RADIANTDIR_FALLBACK == "/opt/lscc/radiant/1.0"

\* os.getenv(key, default)
getenv(environ, key, default) ==
    IF environ[key] = Absent THEN default ELSE environ[key]

ICECUBEDIR_DEFAULT(environ) == getenv(environ, "ICECUBEDIR", ICECUBEDIR_FALLBACK)
RADIANTDIR_DEFAULT(environ) == getenv(environ, "RADIANTDIR", RADIANTDIR_FALLBACK)

\* ' '.join(srcs)
RECURSIVE Join(_)
Join(srcs) ==
    IF Len(srcs) = 0 THEN ""
    ELSE IF Len(srcs) = 1 THEN srcs[1]
    ELSE srcs[1] \o " " \o Join(Tail(srcs))

----------------------------------------------------------------------------
(* Python integers, kept exact past 32 bits: <<hi, lo>> is hi * 2^16 + lo  *)
(* with 0 <= lo < 2^16.                                                    *)

Big(hi, lo) == << hi, lo >>

BigLeq(a, b) == a[1] < b[1] \/ (a[1] = b[1] /\ a[2] <= b[2])

\* a * base + d
BigMulAdd(a, base, d) ==
    LET low == a[2] * base + d
    IN  Big(a[1] * base + (low \div 65536), low % 65536)

BigNeg(a) ==
    IF a[2] = 0 THEN Big(-a[1], 0) ELSE Big(-a[1] - 1, 65536 - a[2])

\* 0x7FFFFFFF
SeedMax == Big(32767, 65535)

DigitVal(c) ==
    CASE c = "0" -> 0 [] c = "1" -> 1 [] c = "2" -> 2 [] c = "3" -> 3
      [] c = "4" -> 4 [] c = "5" -> 5 [] c = "6" -> 6 [] c = "7" -> 7
      [] c = "8" -> 8 [] c = "9" -> 9 [] c = "A" -> 10 [] c = "B" -> 11
      [] c = "C" -> 12 [] c = "D" -> 13 [] c = "E" -> 14 [] c = "F" -> 15
      [] OTHER -> 99

RECURSIVE Digits(_, _, _)
Digits(chars, base, acc) ==
    IF Len(chars) = 0 THEN acc
    ELSE Digits(Tail(chars), base, BigMulAdd(acc, base, DigitVal(Head(chars))))

\* int(s, 0) on the characters of s: [ok, val]; ok = FALSE is ValueError
ParseInt(chars) ==
    LET neg == Len(chars) > 0 /\ Head(chars) = "-"
        body == IF neg THEN Tail(chars) ELSE chars
        hex == Len(body) >= 2 /\ body[1] = "0" /\ body[2] = "x"
        digits == IF hex THEN SubSeq(body, 3, Len(body)) ELSE body
        base == IF hex THEN 16 ELSE 10
        valid ==
            /\ Len(digits) > 0
            /\ \A i \in 1..Len(digits) : DigitVal(digits[i]) < base
            /\ (~hex /\ Len(digits) > 1 /\ digits[1] = "0")
                   => \A i \in 1..Len(digits) : digits[i] = "0"
        mag == Digits(digits, base, Big(0, 0))
    IN  [ ok |-> valid,
          val |-> IF ~valid THEN Big(0, 0)
                  ELSE IF neg THEN BigNeg(mag) ELSE mag ]

\* the --seed strings tried, as character lists; <<>> is the empty string
SeedArgs ==
    { << >>,
      << "0" >>, << "1" >>, << "-", "1" >>,
      << "2", "1", "4", "7", "4", "8", "3", "6", "4", "7" >>,
      << "2", "1", "4", "7", "4", "8", "3", "6", "4", "8" >>,
      << "0", "x", "7", "F", "F", "F", "F", "F", "F", "F" >>,
      << "a", "b", "c" >> }

\* args.seed when --seed is not given (argparse default None)
NoSeedArg == << None >>

----------------------------------------------------------------------------
(* The adapter object *)

NoAdapter ==
    [ made |-> FALSE, toolchain |-> None, installdir |-> None,
      strategy |-> None, seed |-> {}, pcf |-> None, sdc |-> None,
      xdc |-> None, family |-> None, device |-> None, package |-> None,
      srcs |-> << >>, top |-> None ]

\* Icecube2.__init__ / Radiant.__init__ and the subclass constructors
NewLocalAdapter(id, environ) ==
    [ NoAdapter EXCEPT
        !.made = TRUE,
        !.toolchain = id,
        !.installdir = IF id \in Icecube2Ids THEN ICECUBEDIR_DEFAULT(environ)
                       ELSE RADIANTDIR_DEFAULT(environ) ]

\* the constructors of the imported adapters, which take the root directory
NewImportedAdapter(id) ==
    [ NoAdapter EXCEPT !.made = TRUE, !.toolchain = id ]

\* syn() of each subclass
syn(id) ==
    CASE id = "icecube2-synpro" -> "synpro"
      [] id = "icecube2-lse" -> "lse"
      [] id = "icecube2-yosys" -> "yosys-synpro"
      [] id = "radiant-lse" -> "lse"
      [] id = "radiant-synpro" -> "synplify"
      [] OTHER -> None

\* the args string built in run()
VendorArgs(a) ==
    IF a.strategy = None THEN "--syn " \o syn(a.toolchain)
    ELSE "--syn " \o syn(a.toolchain) \o " --strategy " \o a.strategy

\* env = {} in place of env = os.environ.copy()
Icecube2EnvNoCopy(a, environ) ==
    [ k \in EnvKeys |->
        CASE k = "SRCS" -> Join(a.srcs)
          [] k = "TOP" -> a.top
          [] k = "ICECUBEDIR" -> a.installdir
          [] k = "ICEDEV" -> a.device \o "-" \o a.package
          [] OTHER -> Absent ]

\* env = os.environ.copy() and the four assignments of Icecube2.run
Icecube2Env(a, environ) ==
    [ k \in EnvKeys |->
        CASE k = "SRCS" -> Join(a.srcs)
          [] k = "TOP" -> a.top
          [] k = "ICECUBEDIR" -> a.installdir
          [] k = "ICEDEV" -> a.device \o "-" \o a.package
          [] OTHER -> environ[k] ]

\* env = os.environ.copy() and the four assignments of Radiant.run
RadiantEnv(a, environ) ==
    [ k \in EnvKeys |->
        CASE k = "SRCS" -> Join(a.srcs)
          [] k = "TOP" -> a.top
          [] k = "RADIANTDIR" -> a.installdir
          [] k = "RADDEV" -> a.device \o "-" \o a.package
          [] OTHER -> environ[k] ]

(* The body of run() as the list of its statements.  "enter"/"exit" are    *)
(* the ends of a `with Timed(self, name)` block, "cmd" is self.cmd(prog,   *)
(* argv, env), "assert" is an assert statement.                            *)

Enter(stage) ==
    [ op |-> "enter", name |-> stage, argv |-> "", ownenv |-> FALSE,
      holds |-> TRUE ]
Exit(stage) ==
    [ op |-> "exit", name |-> stage, argv |-> "", ownenv |-> FALSE,
      holds |-> TRUE ]
Cmd(prog, argv, ownenv) ==
    [ op |-> "cmd", name |-> prog, argv |-> argv, ownenv |-> ownenv,
      holds |-> TRUE ]
AssertStmt(cond) ==
    [ op |-> "assert", name |-> "", argv |-> "", ownenv |-> FALSE,
      holds |-> cond ]

\* iceunpack dedented out of the with block
Icecube2RunUnpackOutside(a) ==
    << Enter("bit-all"),
       Cmd("icecubed.sh", VendorArgs(a), TRUE),
       Exit("bit-all"),
       Cmd("iceunpack", "my.bin my.asc", FALSE),
       Cmd("icetime", "-tmd " \o a.device \o " my.asc", FALSE) >>

Icecube2Run(a) ==
    << Enter("bit-all"),
       Cmd("icecubed.sh", VendorArgs(a), TRUE),
       Cmd("iceunpack", "my.bin my.asc", FALSE),
       Exit("bit-all"),
       Cmd("icetime", "-tmd " \o a.device \o " my.asc", FALSE) >>

\* the two post-processing commands of Radiant.run exchanged
RadiantRunSwapped(a) ==
    << AssertStmt(<< a.device, a.package >> \in RadiantTargets),
       Enter("bit-all"),
       Cmd("radiant.sh", VendorArgs(a), TRUE),
       Exit("bit-all"),
       Cmd("icetime", "-tmd up5k my.asc", FALSE),
       Cmd("iceunpack", "my.bin my.asc", FALSE) >>

RadiantRun(a) ==
    << AssertStmt(<< a.device, a.package >> \in RadiantTargets),
       Enter("bit-all"),
       Cmd("radiant.sh", VendorArgs(a), TRUE),
       Cmd("iceunpack", "my.bin my.asc", FALSE),
       Exit("bit-all"),
       Cmd("icetime", "-tmd up5k my.asc", FALSE) >>

\* run() of an imported adapter: the whole tool flow inside one stage
ImportedRun(a) ==
    << Enter("bit-all"),
       Cmd(a.toolchain, "", FALSE),
       Exit("bit-all") >>

RunBody(a) ==
    IF a.toolchain \in Icecube2Ids THEN Icecube2Run(a)
    ELSE IF a.toolchain \in RadiantIds THEN RadiantRun(a)
    ELSE ImportedRun(a)

\* the environment a command of run() is started with
CmdEnv(a, stmt, environ) ==
    IF ~stmt.ownenv THEN environ
    ELSE IF a.toolchain \in Icecube2Ids THEN Icecube2Env(a, environ)
    ELSE RadiantEnv(a, environ)

\* Timed.__exit__ on the error path: every open stage is recorded, innermost
\* first, while the exception propagates
RECURSIVE Unwind(_, _)
Unwind(stack, recorded) ==
    IF Len(stack) = 0 THEN recorded
    ELSE Unwind(SubSeq(stack, 1, Len(stack) - 1),
                Append(recorded, stack[Len(stack)]))

----------------------------------------------------------------------------
(* Initial states: the caller's inputs and the host *)

\* os.environ at start-up
EnvChoices ==
    { [ k \in EnvKeys |-> IF k = "PATH" THEN "/usr/bin" ELSE Absent ],
      [ k \in EnvKeys |-> Absent ],
      [ k \in EnvKeys |->
          CASE k = "PATH" -> "/usr/bin:/opt/bin"
            [] k = "TOP" -> "stale"
            [] k = "ICECUBEDIR" -> "/custom/icecube"
            [] k = "RADDEV" -> "stale"
            [] OTHER -> Absent ] }

\* os.environ["PATH"].split(os.pathsep)
PathSplit(path) ==
    CASE path = "/usr/bin" -> << "/usr/bin" >>
      [] path = "/usr/bin:/opt/bin" -> << "/usr/bin", "/opt/bin" >>
      [] OTHER -> << path >>

Programs == { "yosys", "icetime", "iceunpack" }

ExePaths == { d \o "/" \o p : d \in { "/usr/bin", "/opt/bin" }, p \in Programs }

InstallDirs == { ICECUBEDIR_FALLBACK, RADIANTDIR_FALLBACK, "/custom/icecube" }

ProjectDescs ==
    { [ srcs |-> SubSeq(SrcNames, 1, n), top |-> "top" ] : n \in 0..MaxSrcs }

NoHost ==
    [ exes |-> {}, dirs |-> {}, missing |-> {} ]

NoArgs ==
    [ family |-> None, device |-> None, package |-> None, toolchain |-> None,
      project |-> None, seed |-> NoSeedArg, seednum |-> {}, strategy |-> None,
      desc |-> [ srcs |-> << >>, top |-> None ] ]

NoRet == [ versions |-> {}, env |-> << >> ]

NoFiles == [ exists |-> FALSE, lines |-> << >> ]

InitRest ==
    /\ ip = 1
    /\ t = NoAdapter
    /\ open = << >>
    /\ runtimes = << >>
    /\ cmds = << >>
    /\ err = "none"
    /\ errAt = "none"
    /\ written = 0
    /\ found = {}
    /\ files = NoFiles
    /\ ret = NoRet

\* python3 fpgaperf.py --family .. --device .. --package .. --toolchain ..
InitMain ==
    /\ entry = "main"
    /\ pc = "main"
    /\ \E target \in Targets, fam \in Families,
          pkgGiven \in BOOLEAN, tc \in ToolchainIds \cup { None },
          prj \in { "oneblink", None }, sd \in SeedArgs \cup { NoSeedArg },
          desc \in ProjectDescs :
          args = [ NoArgs EXCEPT
                     !.family = fam, !.device = target[1],
                     !.package = IF pkgGiven THEN target[2] ELSE None,
                     !.toolchain = tc, !.project = prj, !.seed = sd,
                     !.desc = desc ]
    /\ osenv \in EnvChoices
    /\ osenv["PATH"] = "/usr/bin"
    /\ host = NoHost

\* a caller that constructs one adapter of this file and drives it
InitAdapter ==
    /\ entry = "adapter"
    /\ pc = "new"
    /\ \E target \in Targets, tc \in LocalIds, st \in Strategies,
          desc \in ProjectDescs :
          args = [ NoArgs EXCEPT
                     !.family = FamilyOf(target), !.device = target[1],
                     !.package = target[2], !.toolchain = tc,
                     !.project = "oneblink", !.strategy = st,
                     !.desc = desc ]
    /\ osenv \in EnvChoices
    /\ host = NoHost

\* a caller that asks env_ready()
InitEnv ==
    /\ entry = "env"
    /\ pc = "env"
    /\ args = NoArgs
    /\ osenv \in EnvChoices
    /\ \E exes \in SUBSET ExePaths, dirs \in SUBSET InstallDirs,
          missing \in { {} } \cup { { id } : id \in ImportedIds } :
          host = [ exes |-> exes, dirs |-> dirs, missing |-> missing ]

Init == InitRest /\ (InitMain \/ InitAdapter \/ InitEnv)

\* an exception propagates to the top: Timed stages close on the way out
RaiseAt(e, at) ==
    /\ err' = e
    /\ errAt' = at
    /\ pc' = "failed"
    /\ runtimes' = Unwind(open, runtimes)
    /\ open' = << >>

Raise(e) == RaiseAt(e, pc)

----------------------------------------------------------------------------
(* main() and run(): the orchestrator *)

\* main(): the required-argument check, then the seed conversion
\*     seed = int(args.seed, 0) if args.seed else None
Main ==
    /\ entry = "main" /\ pc = "main"
    /\ LET given == args.seed # NoSeedArg /\ args.seed # << >>
           parsed == ParseInt(args.seed)
       IN  IF None \in { args.family, args.device, args.package,
                         args.toolchain, args.project }
           THEN Raise("SystemExit") /\ UNCHANGED args
           ELSE IF given /\ ~parsed.ok
           THEN Raise("ValueError") /\ UNCHANGED args
           ELSE /\ args' = [ args EXCEPT
                               !.seednum = IF given THEN { parsed.val }
                                           ELSE {} ]
                /\ pc' = "validate"
                /\ UNCHANGED << err, errAt, runtimes, open >>
    /\ UNCHANGED << entry, osenv, host, ip, t, cmds, written, found, files,
                    ret >>

\* 0 <= seed in place of 1 <= seed
SeedOkFromZero(seed) ==
    \A n \in seed : BigLeq(Big(0, 0), n) /\ BigLeq(n, SeedMax)

\* assert seed is None or 1 <= seed <= 0x7FFFFFFF
SeedOk(seed) ==
    \A n \in seed : BigLeq(Big(0, 1), n) /\ BigLeq(n, SeedMax)

\* the six asserts that open run()
ArgsValid(a) ==
    /\ a.family = "ice40" \/ a.family = "xc7"
    /\ a.device # None
    /\ a.package # None
    /\ a.toolchain # None
    /\ a.project # None
    /\ SeedOk(a.seednum)

RunValidate ==
    /\ entry = "main" /\ pc = "validate"
    /\ IF ArgsValid(args)
       THEN pc' = "construct" /\ UNCHANGED << err, errAt, runtimes, open >>
       ELSE Raise("AssertionError")
    /\ UNCHANGED << entry, args, osenv, host, ip, t, cmds, written, found,
                    files, ret >>

\* whether the class registered under id has a constructor that takes the
\* one positional argument run() passes: toolchains[toolchain](root_dir).
\* The classes of this file define __init__(self) only.
AcceptsRootDir(id) == id \in ImportedIds

\* t = toolchains[toolchain](root_dir) and the four attribute assignments
RunConstruct ==
    /\ entry = "main" /\ pc = "construct"
    /\ IF AcceptsRootDir(args.toolchain)
       THEN /\ t' = [ NewImportedAdapter(args.toolchain) EXCEPT
                        !.strategy = args.strategy, !.seed = args.seednum ]
            /\ pc' = "constraints"
            /\ UNCHANGED << err, errAt, runtimes, open >>
       ELSE Raise("TypeError") /\ UNCHANGED t
    /\ UNCHANGED << entry, args, osenv, host, ip, cmds, written, found, files,
                    ret >>

\* the path get_constraint() probes
ConstraintPath(project, family, device, package, toolchain, extension) ==
    "src/" \o project \o "/" \o family \o "/" \o device \o package \o "/"
        \o toolchain \o "." \o extension

\* get_constraint(): the path when the file exists, else None
get_constraint(a, extension, onDisk) ==
    IF extension \in onDisk
    THEN ConstraintPath(a.project, a.family, a.device, a.package,
                        a.toolchain, extension)
    ELSE None

\* os.path.realpath(): the paths of the model hold no symbolic links
realpath(path) == path

\* t.xdc = os.path.realpath(xdc) if sdc else None
\* [ok, val]: ok = FALSE is the TypeError of realpath(None)
XdcAssigned(sdc, xdc) ==
    IF sdc # None
    THEN [ ok |-> xdc # None, val |-> IF xdc # None THEN realpath(xdc) ELSE None ]
    ELSE [ ok |-> TRUE, val |-> None ]

\* get_pcf/get_sdc/get_xdc and the assignments of t.pcf, t.sdc, t.xdc, t.build
RunConstraints ==
    /\ entry = "main" /\ pc = "constraints"
    /\ \E onDisk \in SUBSET ConstraintKinds :
         LET pcf == get_constraint(args, "pcf", onDisk)
             sdc == get_constraint(args, "sdc", onDisk)
             xdc == get_constraint(args, "xdc", onDisk)
             withPcfSdc ==
                 [ t EXCEPT
                     !.pcf = IF pcf # None THEN realpath(pcf) ELSE None,
                     !.sdc = IF sdc # None THEN realpath(sdc) ELSE None ]
             x == XdcAssigned(sdc, xdc)
         IN  /\ found' = onDisk
             /\ IF x.ok
                THEN /\ t' = [ withPcfSdc EXCEPT !.xdc = x.val ]
                     /\ pc' = "project"
                     /\ UNCHANGED << err, errAt, runtimes, open >>
                ELSE /\ t' = withPcfSdc
                     /\ Raise("TypeError")
    /\ UNCHANGED << entry, args, osenv, host, ip, cmds, written, files, ret >>

\* Toolchain.project(): records the design and the target on the adapter
Project(a, desc, family, device, package) ==
    [ a EXCEPT !.family = family, !.device = device, !.package = package,
               !.srcs = desc.srcs, !.top = desc.top ]

\* t.project(get_project(project), family, device, package, ...)
RunProject ==
    /\ entry = "main" /\ pc = "project"
    /\ t' = Project(t, args.desc, args.family, args.device, args.package)
    /\ pc' = "run"
    /\ ip' = 1
    /\ UNCHANGED << entry, args, osenv, host, open, runtimes, cmds, err,
                    errAt, written, found, files, ret >>

----------------------------------------------------------------------------
(* t.run(): the statements of the adapter's run(), one at a time *)

Running == pc = "run" /\ t.made /\ ip \in 1..Len(RunBody(t))

Stmt == RunBody(t)[ip]

\* Timed.__enter__
StageEnter ==
    /\ Running /\ Stmt.op = "enter"
    /\ open' = Append(open, Stmt.name)
    /\ ip' = ip + 1
    /\ UNCHANGED << entry, args, osenv, host, pc, t, runtimes, cmds, err,
                    errAt, written, found, files, ret >>

\* Timed.__exit__ on the normal path: the stage is recorded
StageExit ==
    /\ Running /\ Stmt.op = "exit"
    /\ open' = SubSeq(open, 1, Len(open) - 1)
    /\ runtimes' = Append(runtimes, Stmt.name)
    /\ ip' = ip + 1
    /\ UNCHANGED << entry, args, osenv, host, pc, t, cmds, err, errAt,
                    written, found, files, ret >>

\* an assert statement of run()
RunAssert ==
    /\ Running /\ Stmt.op = "assert"
    /\ IF Stmt.holds
       THEN ip' = ip + 1 /\ UNCHANGED << pc, err, errAt, runtimes, open >>
       ELSE Raise("AssertionError") /\ UNCHANGED ip
    /\ UNCHANGED << entry, args, osenv, host, t, cmds, written, found, files,
                    ret >>

\* Toolchain.cmd(): the process is started with the given environment and
\* waited for; a non-zero exit status raises
RunCmd ==
    /\ Running /\ Stmt.op = "cmd"
    /\ \E status \in { 0, 1 } :
         /\ cmds' = Append(cmds,
                [ prog |-> Stmt.name, argv |-> Stmt.argv,
                  env |-> CmdEnv(t, Stmt, osenv), stages |-> open,
                  status |-> status ])
         /\ IF status = 0
            THEN ip' = ip + 1 /\ UNCHANGED << pc, err, errAt, runtimes, open >>
            ELSE Raise("ToolFailure") /\ UNCHANGED ip
    /\ UNCHANGED << entry, args, osenv, host, t, written, found, files, ret >>

\* run() returns
RunReturn ==
    /\ pc = "run" /\ t.made /\ ip = Len(RunBody(t)) + 1
    /\ pc' = "ran"
    /\ UNCHANGED << entry, args, osenv, host, ip, t, open, runtimes, cmds,
                    err, errAt, written, found, files, ret >>

\* what max_freq() and resources() of an adapter can end with
ReportOutcomes == { "ok", "ReportMissingError", "ParseError" }

\* print_stats(t): t.max_freq(), then t.resources()
PrintStats ==
    /\ entry = "main" /\ pc = "ran"
    /\ \E freq \in ReportOutcomes, res \in ReportOutcomes :
         IF freq # "ok" THEN Raise(freq)
         ELSE IF res # "ok" THEN Raise(res)
         ELSE pc' = "stats" /\ UNCHANGED << err, errAt, runtimes, open >>
    /\ UNCHANGED << entry, args, osenv, host, ip, t, cmds, written, found,
                    files, ret >>

\* write_metadata() in a finally: clause
WriteMetadataAlways ==
    /\ entry = "main"
    /\ pc = "stats" \/ (pc = "failed" /\ errAt \in { "run", "ran" })
    /\ written' = written + 1
    /\ pc' = "done"
    /\ UNCHANGED << entry, args, osenv, host, ip, t, open, runtimes, cmds,
                    err, errAt, found, files, ret >>

\* t.write_metadata()
WriteMetadata ==
    /\ entry = "main" /\ pc = "stats"
    /\ written' = written + 1
    /\ pc' = "done"
    /\ UNCHANGED << entry, args, osenv, host, ip, t, open, runtimes, cmds,
                    err, errAt, found, files, ret >>

----------------------------------------------------------------------------
(* An adapter of this file driven directly *)

\* t = Icecube2Synpro() etc., then t.strategy = ...
AdapterConstruct ==
    /\ entry = "adapter" /\ pc = "new"
    /\ t' = [ NewLocalAdapter(args.toolchain, osenv) EXCEPT
                !.strategy = args.strategy ]
    /\ pc' = "project"
    /\ UNCHANGED << entry, args, osenv, host, ip, open, runtimes, cmds, err,
                    errAt, written, found, files, ret >>

\* t.project(description, family, device, package)
AdapterProject ==
    /\ entry = "adapter" /\ pc = "project"
    /\ t' = Project(t, args.desc, args.family, args.device, args.package)
    /\ pc' = "run"
    /\ ip' = 1
    /\ UNCHANGED << entry, args, osenv, host, open, runtimes, cmds, err,
                    errAt, written, found, files, ret >>

(* Files read by versions().  A line is the list of its fields: the       *)
(* whitespace-separated words of my.asc, the '='-separated parts of        *)
(* ispsys.ini.  The first field stands for the start of the line.          *)

AscFiles ==
    { NoFiles,
      [ exists |-> TRUE, lines |-> << >> ],
      [ exists |-> TRUE, lines |-> << << ".comment" >>, << "Lattice" >> >> ],
      [ exists |-> TRUE,
        lines |-> << << ".comment" >>, << "Lattice" >>,
                     << "iCEcube2", "2017.08.27940" >>,
                     << "Part:", "iCE40HX1K-TQ144" >> >> ],
      [ exists |-> TRUE, lines |-> << << "iCEcube2" >> >> ] }

IniFiles ==
    { NoFiles,
      [ exists |-> TRUE, lines |-> << >> ],
      [ exists |-> TRUE, lines |-> << << "[Startup]" >> >> ],
      [ exists |-> TRUE,
        lines |-> << << "[Startup]" >>,
                     << "ProductType", "1.0.0.350.6" >> >> ],
      [ exists |-> TRUE, lines |-> << << "ProductType" >> >> ] }

\* the loop shared by Icecube2.asc_ver and Radiant.radiant_ver: the second
\* field of the first line that starts with the marker; `assert 0` when no
\* line does; IndexError when that line has one field
RECURSIVE VersionLine(_, _)
VersionLine(lines, marker) ==
    IF Len(lines) = 0 THEN [ err |-> "AssertionError", val |-> None ]
    ELSE IF Head(lines)[1] = marker
    THEN IF Len(Head(lines)) >= 2
         THEN [ err |-> "none", val |-> Head(lines)[2] ]
         ELSE [ err |-> "IndexError", val |-> None ]
    ELSE VersionLine(Tail(lines), marker)

asc_ver(lines) == VersionLine(lines, "iCEcube2")

\* Icecube2.versions(): the try block around open() and asc_ver()
Icecube2Version(file) ==
    IF ~file.exists THEN [ err |-> "none", val |-> None ]
    ELSE asc_ver(file.lines)

\* Radiant.radiant_ver(): open() and the loop, with no try block
radiant_ver(file) ==
    IF ~file.exists THEN [ err |-> "FileNotFoundError", val |-> None ]
    ELSE VersionLine(file.lines, "ProductType")

\* what yosys_ver() returns: a version, or nothing when it cannot tell
YosysVersions == { "0.9", None }

\* the tools versions() reports for an adapter
VersionTools(id) ==
    IF id \in Icecube2Ids THEN { "yosys", "icecube2" } ELSE { "yosys", "radiant" }

\* t.versions(), with the files as they are on disk at the call
AdapterVersions ==
    /\ entry = "adapter"
    /\ t.made
    /\ pc = "ran" \/ (pc = "run" /\ ip = 1)
    /\ \E file \in AscFiles \cup IniFiles, yosys \in YosysVersions :
         /\ file \in (IF t.toolchain \in Icecube2Ids THEN AscFiles ELSE IniFiles)
         /\ files' = file
         /\ LET own == IF t.toolchain \in Icecube2Ids
                       THEN Icecube2Version(file) ELSE radiant_ver(file)
                tool == IF t.toolchain \in Icecube2Ids
                        THEN "icecube2" ELSE "radiant"
            IN  IF own.err = "none"
                THEN /\ ret' = [ ret EXCEPT !.versions =
                                   { << "yosys", yosys >>, << tool, own.val >> } ]
                     /\ pc' = "versions_done"
                     /\ UNCHANGED << err, errAt, runtimes, open >>
                ELSE RaiseAt(own.err, "versions") /\ UNCHANGED ret
    /\ UNCHANGED << entry, args, osenv, host, ip, t, cmds, written, found >>

----------------------------------------------------------------------------
(* The capability prober *)

\* which(program) for a bare program name: [raised, path].  os.environ["PATH"]
\* is a subscript: KeyError when PATH is not set.
which(program, environ, h) ==
    IF environ["PATH"] = Absent THEN [ raised |-> TRUE, path |-> None ]
    ELSE LET dirs == PathSplit(environ["PATH"])
             hits == { i \in 1..Len(dirs) : (dirs[i] \o "/" \o program) \in h.exes }
             first == CHOOSE i \in hits : \A j \in hits : i <= j
         IN  [ raised |-> FALSE,
               path |-> IF hits = {} THEN None
                        ELSE dirs[first] \o "/" \o program ]

have_exec(mybin, environ, h) == which(mybin, environ, h).path # None

\* the executables check_env() of a class of this file looks up, in order
ProbedPrograms(id) ==
    CASE id \in { "icecube2-synpro", "icecube2-lse" } -> << "icetime" >>
      [] id = "icecube2-yosys" -> << "yosys", "icetime" >>
      [] id \in RadiantIds -> << "iceunpack", "icetime" >>
      [] OTHER -> << >>

\* whether check_env() of the class ends in the KeyError of which()
CheckEnvRaises(id, environ, h) ==
    \E i \in 1..Len(ProbedPrograms(id)) :
        which(ProbedPrograms(id)[i], environ, h).raised

\* check_env() of the class registered under id: requirement -> satisfied
CheckEnv(id, environ, h) ==
    LET progs == { << ProbedPrograms(id)[i],
                      have_exec(ProbedPrograms(id)[i], environ, h) >> :
                   i \in 1..Len(ProbedPrograms(id)) }
    IN  IF id \in Icecube2Ids
        THEN progs \cup { << "ICECUBEDIR", ICECUBEDIR_DEFAULT(environ) \in h.dirs >> }
        ELSE IF id \in RadiantIds
        THEN progs \cup { << "RADIANTDIR", RADIANTDIR_DEFAULT(environ) \in h.dirs >> }
        ELSE { << id, id \notin h.missing >> }

\* env_ready() returns: the caller may ask again
EnvReturn(value) ==
    /\ ret' = [ ret EXCEPT !.env = Append(@, value) ]
    /\ ip' = 1
    /\ pc' = IF Len(ret.env) + 1 < MaxCalls THEN "env" ELSE "done"

\* one round of the outer loop of env_ready()
EnvReadyStep ==
    /\ entry = "env" /\ pc = "env" /\ ip \in 1..Len(toolchains)
    /\ LET id == toolchains[ip]
       IN  IF CheckEnvRaises(id, osenv, host)
           THEN Raise("KeyError") /\ UNCHANGED << ip, ret >>
           ELSE IF \E kv \in CheckEnv(id, osenv, host) : ~kv[2]
           THEN EnvReturn("False") /\ UNCHANGED << err, errAt, runtimes, open >>
           ELSE /\ ip' = ip + 1
                /\ UNCHANGED << pc, ret, err, errAt, runtimes, open >>
    /\ UNCHANGED << entry, args, osenv, host, t, cmds, written, found, files >>

\* the loop of env_ready() ends: return True
EnvReadyTrue ==
    /\ entry = "env" /\ pc = "env" /\ ip = Len(toolchains) + 1
    /\ EnvReturn("True")
    /\ UNCHANGED << entry, args, osenv, host, t, open, runtimes, cmds, err,
                    errAt, written, found, files >>

----------------------------------------------------------------------------

Next ==
    \/ Main
    \/ RunValidate
    \/ RunConstruct
    \/ RunConstraints
    \/ RunProject
    \/ StageEnter
    \/ StageExit
    \/ RunAssert
    \/ RunCmd
    \/ RunReturn
    \/ PrintStats
    \/ WriteMetadata
    \/ AdapterConstruct
    \/ AdapterProject
    \/ AdapterVersions
    \/ EnvReadyStep
    \/ EnvReadyTrue

Spec == Init /\ [][Next]_vars

----------------------------------------------------------------------------
(* Properties *)

VendorScripts == { "icecubed.sh", "radiant.sh" }

Ice40Targets == { target \in Targets : FamilyOf(target) = "ice40" }

\* the targets each flow of this file is for: the pairs Radiant.run lists,
\* and the iCE40 parts for iCEcube2
SupportedTargets(id) ==
    IF id \in RadiantIds THEN RadiantTargets ELSE Ice40Targets

\* C1: for every adapter of this file and every (device, package) pair
\* outside the adapter's supported set, no external command has been started
\* in any reachable state.
C1_NoCommandForUnsupportedTarget ==
    ( /\ entry = "adapter"
      /\ << args.device, args.package >> \notin SupportedTargets(args.toolchain) )
        => cmds = << >>

CommandOrder(id) ==
    << IF id \in Icecube2Ids THEN "icecubed.sh" ELSE "radiant.sh",
       "iceunpack", "icetime" >>

\* C3: the commands of one run are a prefix of vendor script, iceunpack,
\* icetime, each at most once; a command that exits non-zero is the last one
\* started and the run has failed with it.
C3_FixedOrderNoRetry ==
    entry = "adapter" =>
        /\ Len(cmds) <= Len(CommandOrder(args.toolchain))
        /\ \A i \in 1..Len(cmds) :
             /\ cmds[i].prog = CommandOrder(args.toolchain)[i]
             /\ cmds[i].status # 0
                    => /\ i = Len(cmds)
                       /\ pc = "failed"
                       /\ err = "ToolFailure"

\* C3 witness: iceunpack exited non-zero after the vendor script succeeded
C3_UnpackFailed ==
    /\ entry = "adapter"
    /\ Len(cmds) = 2
    /\ cmds[1].status = 0
    /\ cmds[2].prog = "iceunpack"
    /\ cmds[2].status # 0

\* C4: the metadata report is written at most once, only after the adapter's
\* run() returned with every command successful and print_stats() returned;
\* after any failure it has not been written.
C4_MetadataOnlyAfterSuccess ==
    entry = "main" =>
        /\ written <= 1
        /\ written = 1
               => /\ pc = "done"
                  /\ err = "none"
                  /\ ip = Len(RunBody(t)) + 1
                  /\ \A i \in 1..Len(cmds) : cmds[i].status = 0
        /\ err # "none" => written = 0

\* C4 witness: a run whose report was written
C4_MetadataWritten ==
    /\ entry = "main"
    /\ written = 1
    /\ Len(cmds) > 0

\* C5: with valid arguments, construction of the adapter never fails for an
\* id registered in the toolchains table.
C5_RegisteredIdConstructs ==
    ~ ( /\ entry = "main"
        /\ args.toolchain \in ToolchainIds
        /\ pc = "failed"
        /\ errAt = "construct" )

\* the environment C6 expects the vendor script to get
ExpectedVendorEnv ==
    LET ice == args.toolchain \in Icecube2Ids
        dirKey == IF ice THEN "ICECUBEDIR" ELSE "RADIANTDIR"
        devKey == IF ice THEN "ICEDEV" ELSE "RADDEV"
        fallback == IF ice THEN ICECUBEDIR_FALLBACK ELSE RADIANTDIR_FALLBACK
    IN  [ k \in EnvKeys |->
            IF k = "SRCS" THEN Join(args.desc.srcs)
            ELSE IF k = "TOP" THEN args.desc.top
            ELSE IF k = dirKey
            THEN (IF osenv[k] = Absent THEN fallback ELSE osenv[k])
            ELSE IF k = devKey THEN args.device \o "-" \o args.package
            ELSE osenv[k] ]

C6_VendorEnvIsOverlay ==
    entry = "adapter" =>
        \A i \in 1..Len(cmds) :
            cmds[i].prog \in VendorScripts => cmds[i].env = ExpectedVendorEnv

\* C6: no step changes os.environ, and the vendor script is started with the
\* ambient environment overlaid with exactly SRCS, TOP, the install
\* directory key and the device key, the last being device-package.
C6_AmbientEnvUntouched ==
    [] C6_VendorEnvIsOverlay /\ [][osenv' = osenv]_vars

\* C6 witness: the vendor script was started with TOP overlaid while the
\* ambient TOP keeps its old value
C6_OverlayOverAmbient ==
    /\ entry = "adapter"
    /\ osenv["TOP"] = "stale"
    /\ \E i \in 1..Len(cmds) :
         /\ cmds[i].prog \in VendorScripts
         /\ cmds[i].env["TOP"] = "top"
         /\ cmds[i].env["PATH"] = osenv["PATH"]

\* C7: versions() never fails, whatever the files hold, and returns an entry
\* for every tool.
C7_VersionsNeverFails ==
    entry = "adapter" =>
        /\ errAt # "versions"
        /\ pc = "versions_done"
               => { kv[1] : kv \in ret.versions } = VersionTools(t.toolchain)

\* 1 <= n <= 2^31 - 1
SeedInRange(n) ==
    /\ n[1] \in 0..32767
    /\ n[2] \in 0..65535
    /\ n # << 0, 0 >>

\* C8: run() gets past its argument checks only with no seed or a seed in
\* 1..2^31-1; with any other seed no adapter is constructed and no command
\* started.
C8_SeedChecked ==
    entry = "main" =>
        /\ pc \notin { "main", "validate", "failed" }
               => \A n \in args.seednum : SeedInRange(n)
        /\ (\E n \in args.seednum : ~SeedInRange(n))
               => ~t.made /\ cmds = << >>

\* C8 witness: --seed 2147483648 is refused by the assert
C8_SeedTooLargeRefused ==
    /\ entry = "main"
    /\ args.seednum = { << 32768, 0 >> }
    /\ pc = "failed"
    /\ errAt = "validate"
    /\ err = "AssertionError"

\* C9: for every combination of constraint files on disk, setting the paths
\* never fails and the adapter's path of a kind is set iff that kind's file
\* was found.
C9_ConstraintsIndependent ==
    entry = "main" =>
        /\ errAt # "constraints"
        /\ pc \in { "project", "run", "ran", "stats", "done" }
               => /\ t.pcf # None <=> "pcf" \in found
                  /\ t.sdc # None <=> "sdc" \in found
                  /\ t.xdc # None <=> "xdc" \in found

\* an executable is on the host when a directory of PATH holds it
OnPath(program) ==
    /\ osenv["PATH"] # Absent
    /\ \E i \in 1..Len(PathSplit(osenv["PATH"])) :
         (PathSplit(osenv["PATH"])[i] \o "/" \o program) \in host.exes

\* every requirement of every registered toolchain is present
AllPresent ==
    /\ host.missing = {}
    /\ OnPath("icetime") /\ OnPath("yosys") /\ OnPath("iceunpack")
    /\ (IF osenv["ICECUBEDIR"] = Absent THEN ICECUBEDIR_FALLBACK
        ELSE osenv["ICECUBEDIR"]) \in host.dirs
    /\ (IF osenv["RADIANTDIR"] = Absent THEN RADIANTDIR_FALLBACK
        ELSE osenv["RADIANTDIR"]) \in host.dirs

\* C10: env_ready() never raises, returns True exactly when every requirement
\* is present, and repeated calls on the same host agree.
C10_EnvReadyIsData ==
    entry = "env" =>
        /\ err = "none"
        /\ \A i \in 1..Len(ret.env) :
             ret.env[i] = IF AllPresent THEN "True" ELSE "False"

====
